---- MODULE Spec2Model ----
(***************************************************************************)
(* A model of the table-driven SLR parser of SLRparser.py: the ParseNode   *)
(* tree, the SLRParser object (stack, input buffer, diagnostic, tree) and  *)
(* one action per iteration of the loop of parse().                        *)
(*                                                                         *)
(* Python strings that the code takes apart (the table's actions 's4',     *)
(* 'r12', 'acc') are sequences of one-character strings; the nonterminals  *)
(* the source spells with a typographic prime are spelled with "'".        *)
(***************************************************************************)
EXTENDS Integers, Sequences, FiniteSets, TLC

\* Longest token list enumerated exhaustively over Alphabet.
MaxLen == 2

(***************************************************************************)
(* Python values                                                           *)
(***************************************************************************)
None == [none |-> TRUE]

\* a str and an int as they appear as values of the table
Text(text) == [str |-> text]
Number(n) == [int |-> n]

IsStr(v) == "str" \in DOMAIN v
IsInt(v) == "int" \in DOMAIN v

\* str.startswith for a one-character prefix
startswith(text, prefix) == Len(text) >= 1 /\ text[1] = prefix

Digits == {"0", "1", "2", "3", "4", "5", "6", "7", "8", "9"}

DigitValue(c) ==
    CASE c = "0" -> 0 [] c = "1" -> 1 [] c = "2" -> 2 [] c = "3" -> 3
      [] c = "4" -> 4 [] c = "5" -> 5 [] c = "6" -> 6 [] c = "7" -> 7
      [] c = "8" -> 8 [] c = "9" -> 9

\* int(text) raises ValueError unless text is a numeral
IsNumeral(text) == Len(text) >= 1 /\ \A i \in 1..Len(text) : text[i] \in Digits

RECURSIVE int(_)
int(text) ==
    IF Len(text) = 0 THEN 0
    ELSE 10 * int(SubSeq(text, 1, Len(text) - 1)) + DigitValue(text[Len(text)])

\* dict.get(key): the value, or None when the key is absent
get(row, key) == IF key \in DOMAIN row THEN row[key] ELSE None

(***************************************************************************)
(* ParseNode; the stack holds ParseNodes and ints                          *)
(***************************************************************************)
ParseNode(symbol, children) == [symbol |-> symbol, children |-> children]

IsNode(e) == "symbol" \in DOMAIN e

(***************************************************************************)
(* The module-level table and grammar                                      *)
(***************************************************************************)
SLR_parsing_table ==
    0 :> ("vtype" :> Text(<<"s", "4">>) @@ "$" :> Text(<<"r", "3">>) @@ "CODE" :> Number(1) @@ "VDECL" :> Number(2) @@ "FDECL" :> Number(3)) @@
    1 :> ("$" :> Text(<<"a", "c", "c">>)) @@
    2 :> ("vtype" :> Text(<<"s", "4">>) @@ "$" :> Text(<<"r", "3">>) @@ "CODE" :> Number(5) @@ "VDECL" :> Number(2) @@ "FDECL" :> Number(3)) @@
    3 :> ("vtype" :> Text(<<"s", "4">>) @@ "$" :> Text(<<"r", "3">>) @@ "CODE" :> Number(6) @@ "VDECL" :> Number(2) @@ "FDECL" :> Number(3)) @@
    4 :> ("id" :> Text(<<"s", "7">>) @@ "ASSIGN" :> Number(8)) @@
    5 :> ("$" :> Text(<<"r", "1">>)) @@
    6 :> ("$" :> Text(<<"r", "2">>)) @@
    7 :> ("semi" :> Text(<<"s", "9">>) @@ "assign" :> Text(<<"s", "1", "1">>) @@ "lparen" :> Text(<<"s", "1", "0">>)) @@
    8 :> ("semi" :> Text(<<"s", "1", "2">>)) @@
    9 :> ("vtype" :> Text(<<"r", "4">>) @@ "id" :> Text(<<"r", "4">>) @@ "rbrace" :> Text(<<"r", "4">>) @@ "if" :> Text(<<"r", "4">>) @@ "while" :> Text(<<"r", "4">>) @@ "return" :> Text(<<"r", "4">>) @@ "$" :> Text(<<"r", "4">>)) @@
    10 :> ("vtype" :> Text(<<"s", "1", "4">>) @@ "rparen" :> Text(<<"r", "2", "0">>) @@ "ARG" :> Number(13)) @@
    11 :> ("id" :> Text(<<"s", "2", "3">>) @@ "literal" :> Text(<<"s", "1", "7">>) @@ "character" :> Text(<<"s", "1", "8">>) @@ "boolstr" :> Text(<<"s", "1", "9">>) @@ "lparen" :> Text(<<"s", "2", "2">>) @@ "num" :> Text(<<"s", "2", "4">>) @@ "RHS" :> Number(15) @@ "EXPR" :> Number(16) @@ "EXPR'" :> Number(20) @@ "EXPR''" :> Number(21)) @@
    12 :> ("vtype" :> Text(<<"r", "5">>) @@ "id" :> Text(<<"r", "5">>) @@ "rbrace" :> Text(<<"r", "5">>) @@ "if" :> Text(<<"r", "5">>) @@ "while" :> Text(<<"r", "5">>) @@ "return" :> Text(<<"r", "5">>) @@ "$" :> Text(<<"r", "5">>)) @@
    13 :> ("rparen" :> Text(<<"s", "2", "5">>)) @@
    14 :> ("id" :> Text(<<"s", "2", "6">>)) @@
    15 :> ("semi" :> Text(<<"r", "6">>)) @@
    16 :> ("semi" :> Text(<<"r", "7">>) @@ "addsub" :> Text(<<"s", "2", "7">>)) @@
    17 :> ("semi" :> Text(<<"r", "8">>)) @@
    18 :> ("semi" :> Text(<<"r", "9">>)) @@
    19 :> ("semi" :> Text(<<"r", "1", "0">>)) @@
    20 :> ("semi" :> Text(<<"r", "1", "2">>) @@ "addsub" :> Text(<<"r", "1", "2">>) @@ "multdiv" :> Text(<<"s", "2", "8">>) @@ "rparen" :> Text(<<"r", "1", "2">>)) @@
    21 :> ("semi" :> Text(<<"r", "1", "4">>) @@ "addsub" :> Text(<<"r", "1", "4">>) @@ "multdiv" :> Text(<<"r", "1", "4">>) @@ "rparen" :> Text(<<"r", "1", "4">>)) @@
    22 :> ("id" :> Text(<<"s", "2", "3">>) @@ "lparen" :> Text(<<"s", "2", "2">>) @@ "num" :> Text(<<"s", "2", "4">>) @@ "EXPR" :> Number(29) @@ "EXPR'" :> Number(20) @@ "EXPR''" :> Number(21)) @@
    23 :> ("semi" :> Text(<<"r", "1", "6">>) @@ "addsub" :> Text(<<"r", "1", "6">>) @@ "multdiv" :> Text(<<"r", "1", "6">>) @@ "rparen" :> Text(<<"r", "1", "6">>)) @@
    24 :> ("semi" :> Text(<<"r", "1", "7">>) @@ "addsub" :> Text(<<"r", "1", "7">>) @@ "multdiv" :> Text(<<"r", "1", "7">>) @@ "rparen" :> Text(<<"r", "1", "7">>)) @@
    25 :> ("lbrace" :> Text(<<"s", "3", "0">>)) @@
    26 :> ("rparen" :> Text(<<"r", "2", "2">>) @@ "comma" :> Text(<<"s", "3", "2">>) @@ "MOREARGS" :> Number(31)) @@
    27 :> ("id" :> Text(<<"s", "2", "3">>) @@ "lparen" :> Text(<<"s", "2", "2">>) @@ "num" :> Text(<<"s", "2", "4">>) @@ "EXPR'" :> Number(33) @@ "EXPR''" :> Number(21)) @@
    28 :> ("id" :> Text(<<"s", "2", "3">>) @@ "lparen" :> Text(<<"s", "2", "2">>) @@ "num" :> Text(<<"s", "2", "4">>) @@ "EXPR''" :> Number(34)) @@
    29 :> ("addsub" :> Text(<<"s", "2", "7">>) @@ "rparen" :> Text(<<"s", "3", "5">>)) @@
    30 :> ("vtype" :> Text(<<"s", "4", "2">>) @@ "id" :> Text(<<"s", "4", "3">>) @@ "rbrace" :> Text(<<"r", "2", "4">>) @@ "if" :> Text(<<"s", "4", "0">>) @@ "while" :> Text(<<"s", "4", "1">>) @@ "return" :> Text(<<"r", "2", "4">>) @@ "VDECL" :> Number(38) @@ "ASSIGN" :> Number(39) @@ "BLOCK" :> Number(36) @@ "STMT" :> Number(37)) @@
    31 :> ("rparen" :> Text(<<"r", "1", "9">>)) @@
    32 :> ("vtype" :> Text(<<"s", "4", "4">>)) @@
    33 :> ("semi" :> Text(<<"r", "1", "1">>) @@ "addsub" :> Text(<<"r", "1", "1">>) @@ "multdiv" :> Text(<<"s", "2", "8">>) @@ "rparen" :> Text(<<"r", "1", "1">>)) @@
    34 :> ("semi" :> Text(<<"r", "1", "3">>) @@ "addsub" :> Text(<<"r", "1", "3">>) @@ "multdiv" :> Text(<<"r", "1", "3">>) @@ "rparen" :> Text(<<"r", "1", "3">>)) @@
    35 :> ("semi" :> Text(<<"r", "1", "5">>) @@ "addsub" :> Text(<<"r", "1", "5">>) @@ "multdiv" :> Text(<<"r", "1", "5">>) @@ "rparen" :> Text(<<"r", "1", "5">>)) @@
    36 :> ("return" :> Text(<<"s", "4", "6">>) @@ "RETURN" :> Number(45)) @@
    37 :> ("vtype" :> Text(<<"s", "4", "2">>) @@ "id" :> Text(<<"s", "4", "3">>) @@ "rbrace" :> Text(<<"r", "2", "4">>) @@ "if" :> Text(<<"s", "4", "0">>) @@ "while" :> Text(<<"s", "4", "1">>) @@ "return" :> Text(<<"r", "2", "4">>) @@ "VDECL" :> Number(38) @@ "ASSIGN" :> Number(39) @@ "BLOCK" :> Number(47) @@ "STMT" :> Number(37)) @@
    38 :> ("vtype" :> Text(<<"r", "2", "5">>) @@ "id" :> Text(<<"r", "2", "5">>) @@ "rbrace" :> Text(<<"r", "2", "5">>) @@ "if" :> Text(<<"r", "2", "5">>) @@ "while" :> Text(<<"r", "2", "5">>) @@ "return" :> Text(<<"r", "2", "5">>)) @@
    39 :> ("semi" :> Text(<<"s", "4", "8">>)) @@
    40 :> ("lparen" :> Text(<<"s", "4", "9">>)) @@
    41 :> ("lparen" :> Text(<<"s", "5", "0">>)) @@
    42 :> ("id" :> Text(<<"s", "5", "1">>) @@ "ASSIGN" :> Number(8)) @@
    43 :> ("assign" :> Text(<<"s", "1", "1">>)) @@
    44 :> ("id" :> Text(<<"s", "5", "2">>)) @@
    45 :> ("rbrace" :> Text(<<"s", "5", "3">>)) @@
    46 :> ("id" :> Text(<<"s", "2", "3">>) @@ "literal" :> Text(<<"s", "1", "7">>) @@ "character" :> Text(<<"s", "1", "8">>) @@ "boolstr" :> Text(<<"s", "1", "9">>) @@ "lparen" :> Text(<<"s", "2", "2">>) @@ "num" :> Text(<<"s", "2", "4">>) @@ "RHS" :> Number(54) @@ "EXPR" :> Number(16) @@ "EXPR'" :> Number(20) @@ "EXPR''" :> Number(21)) @@
    47 :> ("rbrace" :> Text(<<"r", "2", "3">>) @@ "return" :> Text(<<"r", "2", "3">>)) @@
    48 :> ("vtype" :> Text(<<"r", "2", "6">>) @@ "id" :> Text(<<"r", "2", "6">>) @@ "rbrace" :> Text(<<"r", "2", "6">>) @@ "if" :> Text(<<"r", "2", "6">>) @@ "while" :> Text(<<"r", "2", "6">>) @@ "return" :> Text(<<"r", "2", "6">>)) @@
    49 :> ("boolstr" :> Text(<<"s", "5", "7">>) @@ "COND" :> Number(55) @@ "COND'" :> Number(56)) @@
    50 :> ("boolstr" :> Text(<<"s", "5", "7">>) @@ "COND" :> Number(58) @@ "COND'" :> Number(56)) @@
    51 :> ("semi" :> Text(<<"s", "9">>) @@ "assign" :> Text(<<"s", "1", "1">>)) @@
    52 :> ("rparen" :> Text(<<"r", "2", "2">>) @@ "comma" :> Text(<<"s", "3", "2">>) @@ "MOREARGS" :> Number(59)) @@
    53 :> ("vtype" :> Text(<<"r", "1", "8">>) @@ "$" :> Text(<<"r", "1", "8">>)) @@
    54 :> ("semi" :> Text(<<"s", "6", "0">>)) @@
    55 :> ("rparen" :> Text(<<"s", "6", "1">>) @@ "comp" :> Text(<<"s", "6", "2">>) @@ "COND" :> Number(62) @@ "COND'" :> Number(57)) @@
    56 :> ("rparen" :> Text(<<"r", "3", "0">>) @@ "comp" :> Text(<<"r", "3", "0">>)) @@
    57 :> ("rparen" :> Text(<<"r", "3", "1">>) @@ "comp" :> Text(<<"r", "3", "1">>)) @@
    58 :> ("rparen" :> Text(<<"s", "6", "3">>) @@ "comp" :> Text(<<"s", "6", "2">>) @@ "COND" :> Number(62) @@ "COND'" :> Number(57)) @@
    59 :> ("rparen" :> Text(<<"r", "2", "1">>)) @@
    60 :> ("rbrace" :> Text(<<"r", "3", "4">>)) @@
    61 :> ("lbrace" :> Text(<<"s", "6", "4">>)) @@
    62 :> ("boolstr" :> Text(<<"s", "5", "7">>) @@ "COND'" :> Number(65)) @@
    63 :> ("lbrace" :> Text(<<"s", "6", "6">>)) @@
    64 :> ("vtype" :> Text(<<"s", "4", "2">>) @@ "id" :> Text(<<"s", "4", "3">>) @@ "rbrace" :> Text(<<"r", "2", "4">>) @@ "if" :> Text(<<"s", "4", "0">>) @@ "while" :> Text(<<"s", "4", "1">>) @@ "return" :> Text(<<"r", "2", "4">>) @@ "VDECL" :> Number(38) @@ "ASSIGN" :> Number(39) @@ "BLOCK" :> Number(67) @@ "STMT" :> Number(37)) @@
    65 :> ("rparen" :> Text(<<"r", "2", "9">>) @@ "return" :> Text(<<"r", "2", "9">>)) @@
    66 :> ("vtype" :> Text(<<"s", "4", "2">>) @@ "id" :> Text(<<"s", "4", "3">>) @@ "rbrace" :> Text(<<"r", "2", "4">>) @@ "if" :> Text(<<"s", "4", "0">>) @@ "while" :> Text(<<"s", "4", "1">>) @@ "return" :> Text(<<"r", "2", "4">>) @@ "VDECL" :> Number(38) @@ "ASSIGN" :> Number(39) @@ "BLOCK" :> Number(68) @@ "STMT" :> Number(37)) @@
    67 :> ("rbrace" :> Text(<<"s", "6", "9">>)) @@
    68 :> ("rbrace" :> Text(<<"s", "7", "0">>)) @@
    69 :> ("vtype" :> Text(<<"r", "3", "3">>) @@ "id" :> Text(<<"r", "3", "3">>) @@ "rbrace" :> Text(<<"r", "3", "3">>) @@ "if" :> Text(<<"r", "3", "3">>) @@ "while" :> Text(<<"r", "3", "3">>) @@ "else" :> Text(<<"s", "7", "2">>) @@ "return" :> Text(<<"r", "3", "3">>) @@ "ELSE" :> Number(71)) @@
    70 :> ("vtype" :> Text(<<"r", "2", "8">>) @@ "id" :> Text(<<"r", "2", "8">>) @@ "rbrace" :> Text(<<"r", "2", "8">>) @@ "if" :> Text(<<"r", "2", "8">>) @@ "while" :> Text(<<"r", "2", "8">>) @@ "return" :> Text(<<"r", "2", "8">>)) @@
    71 :> ("vtype" :> Text(<<"r", "2", "7">>) @@ "id" :> Text(<<"r", "2", "7">>) @@ "rbrace" :> Text(<<"r", "2", "7">>) @@ "if" :> Text(<<"r", "2", "7">>) @@ "while" :> Text(<<"r", "2", "7">>) @@ "return" :> Text(<<"r", "2", "7">>)) @@
    72 :> ("lbrace" :> Text(<<"s", "7", "3">>)) @@
    73 :> ("vtype" :> Text(<<"s", "4", "2">>) @@ "id" :> Text(<<"s", "4", "3">>) @@ "rbrace" :> Text(<<"r", "2", "4">>) @@ "if" :> Text(<<"s", "4", "0">>) @@ "while" :> Text(<<"s", "4", "1">>) @@ "return" :> Text(<<"r", "2", "4">>) @@ "VDECL" :> Number(38) @@ "ASSIGN" :> Number(39) @@ "BLOCK" :> Number(74) @@ "STMT" :> Number(37)) @@
    74 :> ("rbrace" :> Text(<<"s", "7", "5">>)) @@
    75 :> ("vtype" :> Text(<<"r", "3", "2">>) @@ "id" :> Text(<<"r", "3", "2">>) @@ "rbrace" :> Text(<<"r", "3", "2">>) @@ "if" :> Text(<<"r", "3", "2">>) @@ "while" :> Text(<<"r", "3", "2">>) @@ "return" :> Text(<<"r", "3", "2">>))

SLR_grammar ==
    0 :> <<"S'", <<"CODE">>>> @@
    1 :> <<"CODE", <<"VDECL", "CODE">>>> @@
    2 :> <<"CODE", <<"FDECL", "CODE">>>> @@
    3 :> <<"CODE", <<"epsilon">>>> @@
    4 :> <<"VDECL", <<"vtype", "id", "semi">>>> @@
    5 :> <<"VDECL", <<"vtype", "ASSIGN", "semi">>>> @@
    6 :> <<"ASSIGN", <<"id", "assign", "RHS">>>> @@
    7 :> <<"RHS", <<"EXPR">>>> @@
    8 :> <<"RHS", <<"literal">>>> @@
    9 :> <<"RHS", <<"character">>>> @@
    10 :> <<"RHS", <<"boolstr">>>> @@
    11 :> <<"EXPR", <<"EXPR", "addsub", "EXPR'">>>> @@
    12 :> <<"EXPR", <<"EXPR'">>>> @@
    13 :> <<"EXPR'", <<"EXPR'", "multdiv", "EXPR''">>>> @@
    14 :> <<"EXPR'", <<"EXPR''">>>> @@
    15 :> <<"EXPR''", <<"lparen", "EXPR", "rparen">>>> @@
    16 :> <<"EXPR''", <<"id">>>> @@
    17 :> <<"EXPR''", <<"num">>>> @@
    18 :> <<"FDECL", <<"vtype", "id", "lparen", "ARG", "rparen", "lbrace", "BLOCK", "RETURN", "rbrace">>>> @@
    19 :> <<"ARG", <<"vtype", "id", "MOREARGS">>>> @@
    20 :> <<"ARG", <<"epsilon">>>> @@
    21 :> <<"MOREARGS", <<"comma", "vtype", "id", "MOREARGS">>>> @@
    22 :> <<"MOREARGS", <<"epsilon">>>> @@
    23 :> <<"BLOCK", <<"STMT", "BLOCK">>>> @@
    24 :> <<"BLOCK", <<"epsilon">>>> @@
    25 :> <<"STMT", <<"VDECL">>>> @@
    26 :> <<"STMT", <<"ASSIGN", "semi">>>> @@
    27 :> <<"STMT", <<"if", "lparen", "COND", "rparen", "lbrace", "BLOCK", "rbrace", "ELSE">>>> @@
    28 :> <<"STMT", <<"while", "lparen", "COND", "rparen", "lbrace", "BLOCK", "rbrace">>>> @@
    29 :> <<"COND", <<"COND", "comp", "COND'">>>> @@
    30 :> <<"COND", <<"COND'">>>> @@
    31 :> <<"COND'", <<"boolstr">>>> @@
    32 :> <<"ELSE", <<"else", "lbrace", "BLOCK", "rbrace">>>> @@
    33 :> <<"ELSE", <<"epsilon">>>> @@
    34 :> <<"RETURN", <<"return", "RHS", "semi">>>>

\* the same grammar with its start symbol spelled PROGRAM: a grammar whose
\* nonterminals do not all occur among the goto keys of SLR_parsing_table
Renamed(symbol) == IF symbol = "CODE" THEN "PROGRAM" ELSE symbol

other_grammar ==
    [i \in DOMAIN SLR_grammar |->
        <<Renamed(SLR_grammar[i][1]),
          [j \in 1..Len(SLR_grammar[i][2]) |-> Renamed(SLR_grammar[i][2][j])]>>]

\* SLR_parsing_table with the reduce of COND -> COND comp COND' entered
\* under comp in state 65
other_parsing_table ==
    [s \in DOMAIN SLR_parsing_table |->
        IF s = 65 THEN SLR_parsing_table[s] @@ ("comp" :> Text(<<"r", "2", "9">>))
        ELSE SLR_parsing_table[s]]

\* Objects are passed by reference: the parser's fields hold the name of
\* the table and of the grammar they refer to.
Tables == {"SLR_parsing_table", "other_parsing_table"}
Grammars == {"SLR_grammar", "other_grammar"}

TableObject(name) ==
    IF name = "SLR_parsing_table" THEN SLR_parsing_table ELSE other_parsing_table

GrammarObject(name) ==
    IF name = "SLR_grammar" THEN SLR_grammar ELSE other_grammar

(***************************************************************************)
(* Symbols of a grammar                                                    *)
(***************************************************************************)
NonTerminals(grammar) == {grammar[i][1] : i \in DOMAIN grammar}

Terminals(grammar) ==
    UNION {{grammar[i][2][j] : j \in 1..Len(grammar[i][2])} : i \in DOMAIN grammar}
        \ (NonTerminals(grammar) \cup {"epsilon"})

(***************************************************************************)
(* Derivation trees of the grammar, written out, and their sentences       *)
(***************************************************************************)
DeclarationDerivation ==
    ParseNode("CODE", <<
      ParseNode("VDECL", <<
        ParseNode("vtype", <<>>),
        ParseNode("id", <<>>),
        ParseNode("semi", <<>>)>>),
      ParseNode("CODE", <<>>)>>)

ArithmeticDerivation ==
    ParseNode("CODE", <<
      ParseNode("VDECL", <<
        ParseNode("vtype", <<>>),
        ParseNode("ASSIGN", <<
          ParseNode("id", <<>>),
          ParseNode("assign", <<>>),
          ParseNode("RHS", <<
            ParseNode("EXPR", <<
              ParseNode("EXPR", <<
                ParseNode("EXPR'", <<
                  ParseNode("EXPR''", <<
                    ParseNode("num", <<>>)>>)>>)>>),
              ParseNode("addsub", <<>>),
              ParseNode("EXPR'", <<
                ParseNode("EXPR'", <<
                  ParseNode("EXPR''", <<
                    ParseNode("id", <<>>)>>)>>),
                ParseNode("multdiv", <<>>),
                ParseNode("EXPR''", <<
                  ParseNode("lparen", <<>>),
                  ParseNode("EXPR", <<
                    ParseNode("EXPR'", <<
                      ParseNode("EXPR''", <<
                        ParseNode("num", <<>>)>>)>>)>>),
                  ParseNode("rparen", <<>>)>>)>>)>>)>>)>>),
        ParseNode("semi", <<>>)>>),
      ParseNode("CODE", <<>>)>>)

FunctionDerivation ==
    ParseNode("CODE", <<
      ParseNode("FDECL", <<
        ParseNode("vtype", <<>>),
        ParseNode("id", <<>>),
        ParseNode("lparen", <<>>),
        ParseNode("ARG", <<
          ParseNode("vtype", <<>>),
          ParseNode("id", <<>>),
          ParseNode("MOREARGS", <<
            ParseNode("comma", <<>>),
            ParseNode("vtype", <<>>),
            ParseNode("id", <<>>),
            ParseNode("MOREARGS", <<>>)>>)>>),
        ParseNode("rparen", <<>>),
        ParseNode("lbrace", <<>>),
        ParseNode("BLOCK", <<
          ParseNode("STMT", <<
            ParseNode("VDECL", <<
              ParseNode("vtype", <<>>),
              ParseNode("id", <<>>),
              ParseNode("semi", <<>>)>>)>>),
          ParseNode("BLOCK", <<
            ParseNode("STMT", <<
              ParseNode("ASSIGN", <<
                ParseNode("id", <<>>),
                ParseNode("assign", <<>>),
                ParseNode("RHS", <<
                  ParseNode("literal", <<>>)>>)>>),
              ParseNode("semi", <<>>)>>),
            ParseNode("BLOCK", <<
              ParseNode("STMT", <<
                ParseNode("if", <<>>),
                ParseNode("lparen", <<>>),
                ParseNode("COND", <<
                  ParseNode("COND", <<
                    ParseNode("COND'", <<
                      ParseNode("boolstr", <<>>)>>)>>),
                  ParseNode("comp", <<>>),
                  ParseNode("COND'", <<
                    ParseNode("boolstr", <<>>)>>)>>),
                ParseNode("rparen", <<>>),
                ParseNode("lbrace", <<>>),
                ParseNode("BLOCK", <<>>),
                ParseNode("rbrace", <<>>),
                ParseNode("ELSE", <<
                  ParseNode("else", <<>>),
                  ParseNode("lbrace", <<>>),
                  ParseNode("BLOCK", <<>>),
                  ParseNode("rbrace", <<>>)>>)>>),
              ParseNode("BLOCK", <<
                ParseNode("STMT", <<
                  ParseNode("while", <<>>),
                  ParseNode("lparen", <<>>),
                  ParseNode("COND", <<
                    ParseNode("COND'", <<
                      ParseNode("boolstr", <<>>)>>)>>),
                  ParseNode("rparen", <<>>),
                  ParseNode("lbrace", <<>>),
                  ParseNode("BLOCK", <<>>),
                  ParseNode("rbrace", <<>>)>>),
                ParseNode("BLOCK", <<>>)>>)>>)>>)>>),
        ParseNode("RETURN", <<
          ParseNode("return", <<>>),
          ParseNode("RHS", <<
            ParseNode("character", <<>>)>>),
          ParseNode("semi", <<>>)>>),
        ParseNode("rbrace", <<>>)>>),
      ParseNode("CODE", <<>>)>>)

CondChainDerivation ==
    ParseNode("CODE", <<
      ParseNode("FDECL", <<
        ParseNode("vtype", <<>>),
        ParseNode("id", <<>>),
        ParseNode("lparen", <<>>),
        ParseNode("ARG", <<>>),
        ParseNode("rparen", <<>>),
        ParseNode("lbrace", <<>>),
        ParseNode("BLOCK", <<
          ParseNode("STMT", <<
            ParseNode("while", <<>>),
            ParseNode("lparen", <<>>),
            ParseNode("COND", <<
              ParseNode("COND", <<
                ParseNode("COND", <<
                  ParseNode("COND'", <<
                    ParseNode("boolstr", <<>>)>>)>>),
                ParseNode("comp", <<>>),
                ParseNode("COND'", <<
                  ParseNode("boolstr", <<>>)>>)>>),
              ParseNode("comp", <<>>),
              ParseNode("COND'", <<
                ParseNode("boolstr", <<>>)>>)>>),
            ParseNode("rparen", <<>>),
            ParseNode("lbrace", <<>>),
            ParseNode("BLOCK", <<>>),
            ParseNode("rbrace", <<>>)>>),
          ParseNode("BLOCK", <<>>)>>),
        ParseNode("RETURN", <<
          ParseNode("return", <<>>),
          ParseNode("RHS", <<
            ParseNode("EXPR", <<
              ParseNode("EXPR'", <<
                ParseNode("EXPR''", <<
                  ParseNode("num", <<>>)>>)>>)>>)>>),
          ParseNode("semi", <<>>)>>),
        ParseNode("rbrace", <<>>)>>),
      ParseNode("CODE", <<>>)>>)

MixedDerivation ==
    ParseNode("CODE", <<
      ParseNode("VDECL", <<
        ParseNode("vtype", <<>>),
        ParseNode("ASSIGN", <<
          ParseNode("id", <<>>),
          ParseNode("assign", <<>>),
          ParseNode("RHS", <<
            ParseNode("boolstr", <<>>)>>)>>),
        ParseNode("semi", <<>>)>>),
      ParseNode("CODE", <<
        ParseNode("FDECL", <<
          ParseNode("vtype", <<>>),
          ParseNode("id", <<>>),
          ParseNode("lparen", <<>>),
          ParseNode("ARG", <<>>),
          ParseNode("rparen", <<>>),
          ParseNode("lbrace", <<>>),
          ParseNode("BLOCK", <<
            ParseNode("STMT", <<
              ParseNode("if", <<>>),
              ParseNode("lparen", <<>>),
              ParseNode("COND", <<
                ParseNode("COND'", <<
                  ParseNode("boolstr", <<>>)>>)>>),
              ParseNode("rparen", <<>>),
              ParseNode("lbrace", <<>>),
              ParseNode("BLOCK", <<>>),
              ParseNode("rbrace", <<>>),
              ParseNode("ELSE", <<>>)>>),
            ParseNode("BLOCK", <<>>)>>),
          ParseNode("RETURN", <<
            ParseNode("return", <<>>),
            ParseNode("RHS", <<
              ParseNode("EXPR", <<
                ParseNode("EXPR'", <<
                  ParseNode("EXPR''", <<
                    ParseNode("id", <<>>)>>)>>)>>)>>),
            ParseNode("semi", <<>>)>>),
          ParseNode("rbrace", <<>>)>>),
        ParseNode("CODE", <<>>)>>)>>)

SampleDerivations ==
    {DeclarationDerivation, ArithmeticDerivation, FunctionDerivation,
     CondChainDerivation, MixedDerivation}

\* node is built by a production of grammar: its children spell the
\* right-hand side (no children for an epsilon production)
BuiltByProduction(grammar, node) ==
    \E i \in DOMAIN grammar :
        /\ grammar[i][1] = node.symbol
        /\ IF grammar[i][2] = <<"epsilon">>
           THEN node.children = <<>>
           ELSE /\ Len(node.children) = Len(grammar[i][2])
                /\ \A j \in 1..Len(grammar[i][2]) :
                      node.children[j].symbol = grammar[i][2][j]

\* every nonterminal node of the tree is built by a production, and every
\* other node is a childless terminal
RECURSIVE IsDerivation(_, _)
IsDerivation(grammar, node) ==
    /\ IF node.symbol \in NonTerminals(grammar)
       THEN BuiltByProduction(grammar, node)
       ELSE node.symbol \in Terminals(grammar) /\ node.children = <<>>
    /\ \A j \in 1..Len(node.children) : IsDerivation(grammar, node.children[j])

RECURSIVE Concat(_)
Concat(seqs) == IF seqs = <<>> THEN <<>> ELSE Head(seqs) \o Concat(Tail(seqs))

\* the terminal leaves of a tree, left to right
RECURSIVE Yield(_, _)
Yield(grammar, node) ==
    IF node.children = <<>>
    THEN IF node.symbol \in NonTerminals(grammar) THEN <<>> ELSE <<node.symbol>>
    ELSE Concat([j \in 1..Len(node.children) |-> Yield(grammar, node.children[j])])

\* sentences of SLR_grammar with a written-out derivation from CODE
Sentences ==
    {Yield(SLR_grammar, d) :
        d \in {t \in SampleDerivations :
                  t.symbol = "CODE" /\ IsDerivation(SLR_grammar, t)}}

(***************************************************************************)
(* Token lists handed to initialize()                                      *)
(***************************************************************************)
\* terminal names, the end marker, a word that is no terminal, and two
\* nonterminal names
Alphabet == Terminals(SLR_grammar) \cup {"$", "x", "CODE", "ASSIGN"}

ShortInputs == UNION {[1..n -> Alphabet] : n \in 0..MaxLen}

ScenarioInputs ==
    {<<"vtype", "x", "semi">>, <<"vtype", "id", "semi", "$", "vtype">>}

Inputs == ShortInputs \cup Sentences \cup ScenarioInputs

(***************************************************************************)
(* The SLRParser object                                                    *)
(***************************************************************************)
VARIABLES
    parsing_table,          \* the first argument of __init__
    self_SLR_parsing_table, \* self.SLR_parsing_table
    self_SLR_grammar,       \* self.SLR_grammar
    stack,                  \* self.stack
    input_buffer,           \* self.input_buffer
    error_message,          \* self.error_message
    parse_tree,             \* self.parse_tree
    pc,                     \* where the caller is: "constructed", "ready",
                            \* "running", or how parse() ended: "accepted"
                            \* (True), "rejected" (False), "crashed" (raised);
                            \* "again_accepted", "again_rejected": parse()
                            \* called again after it returned True, False
    input_tokens,           \* the argument of the last initialize()
    shifts                  \* shifts performed since the last initialize()

vars == <<parsing_table, self_SLR_parsing_table, self_SLR_grammar, stack,
          input_buffer, error_message, parse_tree, pc, input_tokens, shifts>>

config == <<parsing_table, self_SLR_parsing_table, self_SLR_grammar>>

\* __init__(parsing_table, SLR_grammar): the table stored is the module's
\* SLR_parsing_table, whatever parsing_table is
Init ==
    /\ parsing_table \in Tables
    /\ self_SLR_parsing_table = "SLR_parsing_table"
    /\ self_SLR_grammar \in Grammars
    /\ stack = <<>>
    /\ input_buffer = <<>>
    /\ error_message = None
    /\ parse_tree = None
    /\ pc = "constructed"
    /\ input_tokens = <<>>
    /\ shifts = 0

Table == TableObject(self_SLR_parsing_table)
Grammar == GrammarObject(self_SLR_grammar)

initialize(tokens) ==
    /\ pc = "constructed"
    /\ stack' = <<Number(0)>>
    /\ input_buffer' = tokens \o <<"$">>
    /\ pc' = "ready"
    /\ input_tokens' = tokens
    /\ shifts' = 0
    /\ UNCHANGED <<config, error_message, parse_tree>>

Initialize == \E tokens \in Inputs : initialize(tokens)

(***************************************************************************)
(* parse(): one action per iteration of the loop                           *)
(***************************************************************************)
InLoop == pc \in {"ready", "running", "again_accepted", "again_rejected"}

\* lines 67-69 evaluate without raising: the stack and the buffer are not
\* empty and the top of the stack is a key of the table
CanLookUp ==
    /\ Len(stack) >= 1
    /\ Len(input_buffer) >= 1
    /\ IsInt(stack[Len(stack)])
    /\ stack[Len(stack)].int \in DOMAIN Table

\* variant: the state is read from the bottom of the stack
TopState_bottom == stack[1].int

TopState == stack[Len(stack)].int

\* variant: the symbol looked up is the last of the buffer
Symbol_last == input_buffer[Len(input_buffer)]

Symbol == input_buffer[1]
Action == get(Table[TopState], Symbol)

\* the text of the diagnostic, by the two values formatted into it
Message(state, symbol) == [state |-> state, symbol |-> symbol]

\* variant: the diagnostic names the last symbol of the buffer
UndefinedAction_lastsymbol ==
    /\ InLoop /\ CanLookUp
    /\ Action = None
    /\ error_message' = Message(TopState, input_buffer[Len(input_buffer)])
    /\ pc' = "rejected"
    /\ UNCHANGED <<config, stack, input_buffer, parse_tree, input_tokens, shifts>>

\* variant: the symbol without an action is dropped from the buffer
UndefinedAction_consume ==
    /\ InLoop /\ CanLookUp
    /\ Action = None
    /\ error_message' = Message(TopState, Symbol)
    /\ input_buffer' = Tail(input_buffer)
    /\ pc' = "rejected"
    /\ UNCHANGED <<config, stack, parse_tree, input_tokens, shifts>>

\* lines 72-74
UndefinedAction ==
    /\ InLoop /\ CanLookUp
    /\ Action = None
    /\ error_message' = Message(TopState, Symbol)
    /\ pc' = "rejected"
    /\ UNCHANGED <<config, stack, input_buffer, parse_tree, input_tokens, shifts>>

\* lines 67-69 and 77 raise: IndexError on an empty stack or buffer,
\* KeyError on a top of stack that is no key of the table, AttributeError
\* on an action that is an int
Raise ==
    /\ InLoop
    /\ \/ ~CanLookUp
       \/ CanLookUp /\ IsInt(Action)
    /\ pc' = "crashed"
    /\ UNCHANGED <<config, stack, input_buffer, error_message, parse_tree,
                   input_tokens, shifts>>

\* variant: the node wraps the symbol that follows the one removed
shift_next(state) ==
    LET symbol == input_buffer[2]
        node == ParseNode(symbol, <<>>)
    IN  /\ input_buffer' = Tail(input_buffer)
        /\ shifts' = shifts + 1
        /\ IF IsNumeral(state)
           THEN /\ stack' = stack \o <<node, Number(int(state))>>
                /\ pc' = "running"
           ELSE /\ stack' = stack \o <<node>>
                /\ pc' = "crashed"
        /\ UNCHANGED <<config, error_message, parse_tree, input_tokens>>

\* variant: the state is pushed before the node
shift_swapped(state) ==
    LET symbol == input_buffer[1]
        node == ParseNode(symbol, <<>>)
    IN  /\ input_buffer' = Tail(input_buffer)
        /\ shifts' = shifts + 1
        /\ IF IsNumeral(state)
           THEN /\ stack' = stack \o <<Number(int(state)), node>>
                /\ pc' = "running"
           ELSE /\ stack' = stack \o <<node>>
                /\ pc' = "crashed"
        /\ UNCHANGED <<config, error_message, parse_tree, input_tokens>>

\* variant: the symbol is removed from the end of the buffer
shift_poplast(state) ==
    LET symbol == input_buffer[Len(input_buffer)]
        node == ParseNode(symbol, <<>>)
    IN  /\ input_buffer' = SubSeq(input_buffer, 1, Len(input_buffer) - 1)
        /\ shifts' = shifts + 1
        /\ IF IsNumeral(state)
           THEN /\ stack' = stack \o <<node, Number(int(state))>>
                /\ pc' = "running"
           ELSE /\ stack' = stack \o <<node>>
                /\ pc' = "crashed"
        /\ UNCHANGED <<config, error_message, parse_tree, input_tokens>>

\* lines 105-108; int(state) raises ValueError after the node is pushed
shift(state) ==
    LET symbol == input_buffer[1]
        node == ParseNode(symbol, <<>>)
    IN  /\ input_buffer' = Tail(input_buffer)
        /\ shifts' = shifts + 1
        /\ IF IsNumeral(state)
           THEN /\ stack' = stack \o <<node, Number(int(state))>>
                /\ pc' = "running"
           ELSE /\ stack' = stack \o <<node>>
                /\ pc' = "crashed"
        /\ UNCHANGED <<config, error_message, parse_tree, input_tokens>>

\* lines 77-78
Shift ==
    /\ InLoop /\ CanLookUp
    /\ IsStr(Action) /\ startswith(Action.str, "s")
    /\ shift(Tail(Action.str))

\* variant: each popped entry is appended to children
RECURSIVE Pops_append(_, _, _)
Pops_append(stk, children, n) ==
    IF n = 0 THEN [stack |-> stk, children |-> children]
    ELSE Pops_append(SubSeq(stk, 1, Len(stk) - 2),
                     children \o <<stk[Len(stk) - 1]>>, n - 1)

\* lines 137-139: n times, pop a state, then pop an entry and insert it
\* at the front of children
RECURSIVE Pops(_, _, _)
Pops(stk, children, n) ==
    IF n = 0 THEN [stack |-> stk, children |-> children]
    ELSE Pops(SubSeq(stk, 1, Len(stk) - 2),
              <<stk[Len(stk) - 1]>> \o children, n - 1)

\* variant: the new node is made without its children
reduce_nochildren(rule_number, current_state, current_symbol) ==
    IF ~IsNumeral(rule_number) \/ int(rule_number) \notin DOMAIN Grammar
    THEN pc' = "crashed" /\ stack' = stack
    ELSE
    LET lhs == Grammar[int(rule_number)][1]
        rhs == Grammar[int(rule_number)][2]
        n == IF rhs # <<"epsilon">> THEN Len(rhs) ELSE 0
    IN  IF Len(stack) < 2 * n
        THEN pc' = "crashed" /\ stack' = <<>>
        ELSE
        LET popped == Pops(stack, <<>>, n)
            node == ParseNode(lhs, <<>>)
            pushed == popped.stack \o <<node>>
        IN  IF \/ Len(pushed) < 2
               \/ ~IsInt(pushed[Len(pushed) - 1])
               \/ pushed[Len(pushed) - 1].int \notin DOMAIN Table
            THEN pc' = "crashed" /\ stack' = pushed
            ELSE
            LET state == pushed[Len(pushed) - 1].int
                new_state == get(Table[state], lhs)
            IN  IF new_state = None
                THEN pc' = "rejected" /\ stack' = pushed
                ELSE pc' = "running" /\ stack' = pushed \o <<new_state>>

\* variant: an epsilon production pops like any other
reduce_noepsilon(rule_number, current_state, current_symbol) ==
    IF ~IsNumeral(rule_number) \/ int(rule_number) \notin DOMAIN Grammar
    THEN pc' = "crashed" /\ stack' = stack
    ELSE
    LET lhs == Grammar[int(rule_number)][1]
        rhs == Grammar[int(rule_number)][2]
        n == Len(rhs)
    IN  IF Len(stack) < 2 * n
        THEN pc' = "crashed" /\ stack' = <<>>
        ELSE
        LET popped == Pops(stack, <<>>, n)
            node == ParseNode(lhs, popped.children)
            pushed == popped.stack \o <<node>>
        IN  IF \/ Len(pushed) < 2
               \/ ~IsInt(pushed[Len(pushed) - 1])
               \/ pushed[Len(pushed) - 1].int \notin DOMAIN Table
            THEN pc' = "crashed" /\ stack' = pushed
            ELSE
            LET state == pushed[Len(pushed) - 1].int
                new_state == get(Table[state], lhs)
            IN  IF new_state = None
                THEN pc' = "rejected" /\ stack' = pushed
                ELSE pc' = "running" /\ stack' = pushed \o <<new_state>>

\* variant: the goto is looked up in the state the action was found in
reduce_currentstate(rule_number, current_state, current_symbol) ==
    IF ~IsNumeral(rule_number) \/ int(rule_number) \notin DOMAIN Grammar
    THEN pc' = "crashed" /\ stack' = stack
    ELSE
    LET lhs == Grammar[int(rule_number)][1]
        rhs == Grammar[int(rule_number)][2]
        n == IF rhs # <<"epsilon">> THEN Len(rhs) ELSE 0
    IN  IF Len(stack) < 2 * n
        THEN pc' = "crashed" /\ stack' = <<>>
        ELSE
        LET popped == Pops(stack, <<>>, n)
            node == ParseNode(lhs, popped.children)
            pushed == popped.stack \o <<node>>
        IN  IF \/ Len(pushed) < 2
               \/ ~IsInt(pushed[Len(pushed) - 1])
               \/ pushed[Len(pushed) - 1].int \notin DOMAIN Table
            THEN pc' = "crashed" /\ stack' = pushed
            ELSE
            LET state == pushed[Len(pushed) - 1].int
                new_state == get(Table[current_state], lhs)
            IN  IF new_state = None
                THEN pc' = "rejected" /\ stack' = pushed
                ELSE pc' = "running" /\ stack' = pushed \o <<new_state>>

\* lines 132-151.  Raises: ValueError from int(), IndexError from the
\* grammar index, from pop() on an empty stack and from stack[-2],
\* KeyError from the table.
reduce(rule_number, current_state, current_symbol) ==
    IF ~IsNumeral(rule_number) \/ int(rule_number) \notin DOMAIN Grammar
    THEN pc' = "crashed" /\ stack' = stack
    ELSE
    LET lhs == Grammar[int(rule_number)][1]
        rhs == Grammar[int(rule_number)][2]
        n == IF rhs # <<"epsilon">> THEN Len(rhs) ELSE 0
    IN  IF Len(stack) < 2 * n
        THEN pc' = "crashed" /\ stack' = <<>>
        ELSE
        LET popped == Pops(stack, <<>>, n)
            node == ParseNode(lhs, popped.children)
            pushed == popped.stack \o <<node>>
        IN  IF \/ Len(pushed) < 2
               \/ ~IsInt(pushed[Len(pushed) - 1])
               \/ pushed[Len(pushed) - 1].int \notin DOMAIN Table
            THEN pc' = "crashed" /\ stack' = pushed
            ELSE
            LET state == pushed[Len(pushed) - 1].int
                new_state == get(Table[state], lhs)
            IN  IF new_state = None
                THEN pc' = "rejected" /\ stack' = pushed
                ELSE pc' = "running" /\ stack' = pushed \o <<new_state>>

\* lines 80-82
Reduce ==
    /\ InLoop /\ CanLookUp
    /\ IsStr(Action) /\ ~startswith(Action.str, "s") /\ startswith(Action.str, "r")
    /\ reduce(Tail(Action.str), TopState, Symbol)
    /\ UNCHANGED <<config, input_buffer, error_message, parse_tree,
                   input_tokens, shifts>>

\* variant: the tree is taken from the top of the stack
AcceptOrOther_top ==
    /\ InLoop /\ CanLookUp
    /\ IsStr(Action) /\ ~startswith(Action.str, "s") /\ ~startswith(Action.str, "r")
    /\ IF Action.str = <<"a", "c", "c">>
       THEN IF Len(stack) >= 2
            THEN parse_tree' = stack[Len(stack)] /\ pc' = "accepted"
            ELSE parse_tree' = parse_tree /\ pc' = "crashed"
       ELSE parse_tree' = parse_tree /\ pc' = "rejected"
    /\ UNCHANGED <<config, stack, input_buffer, error_message, input_tokens, shifts>>

\* variant: the tree is taken from the bottom of the stack
AcceptOrOther_bottom ==
    /\ InLoop /\ CanLookUp
    /\ IsStr(Action) /\ ~startswith(Action.str, "s") /\ ~startswith(Action.str, "r")
    /\ IF Action.str = <<"a", "c", "c">>
       THEN IF Len(stack) >= 2
            THEN parse_tree' = stack[1] /\ pc' = "accepted"
            ELSE parse_tree' = parse_tree /\ pc' = "crashed"
       ELSE parse_tree' = parse_tree /\ pc' = "rejected"
    /\ UNCHANGED <<config, stack, input_buffer, error_message, input_tokens, shifts>>

\* lines 84-90: 'acc' sets the tree from stack[1] and returns True; any
\* other string returns False
AcceptOrOther ==
    /\ InLoop /\ CanLookUp
    /\ IsStr(Action) /\ ~startswith(Action.str, "s") /\ ~startswith(Action.str, "r")
    /\ IF Action.str = <<"a", "c", "c">>
       THEN IF Len(stack) >= 2
            THEN parse_tree' = stack[2] /\ pc' = "accepted"
            ELSE parse_tree' = parse_tree /\ pc' = "crashed"
       ELSE parse_tree' = parse_tree /\ pc' = "rejected"
    /\ UNCHANGED <<config, stack, input_buffer, error_message, input_tokens, shifts>>

\* lines 153-154
get_error_message == error_message

\* variant: a node is printed after its children
RECURSIVE print_parse_tree_after(_, _)
print_parse_tree_after(node, level) ==
    Concat([j \in 1..Len(node.children) |->
               print_parse_tree_after(node.children[j], level + 1)])
        \o <<[indent |-> level * 2, text |-> node.symbol]>>

\* lines 171-173: the lines printed, each by its indentation and its text
RECURSIVE print_parse_tree(_, _)
print_parse_tree(node, level) ==
    <<[indent |-> level * 2, text |-> node.symbol]>>
        \o Concat([j \in 1..Len(node.children) |->
                      print_parse_tree(node.children[j], level + 1)])

ParseStep == UndefinedAction \/ Shift \/ Reduce \/ AcceptOrOther \/ Raise

(***************************************************************************)
(* One parser object used for several parses                               *)
(***************************************************************************)
ReuseInputs ==
    {<<>>, <<"x">>, <<"vtype", "vtype">>, <<"vtype", "id", "semi">>,
     <<"vtype", "id", "semi", "vtype", "id", "semi">>}

InitializeReuse == \E tokens \in ReuseInputs : initialize(tokens)

\* initialize() called after parse() has returned: lines 54-55 assign the
\* stack and the buffer and nothing else
Reinitialize ==
    \E tokens \in ReuseInputs :
        /\ pc \in {"accepted", "rejected"}
        /\ stack' = <<Number(0)>>
        /\ input_buffer' = tokens \o <<"$">>
        /\ pc' = "ready"
        /\ input_tokens' = tokens
        /\ shifts' = 0
        /\ UNCHANGED <<config, error_message, parse_tree>>

\* parse() called after parse() has returned, with no initialize() between
ParseAgain ==
    /\ pc \in {"accepted", "rejected"}
    /\ pc' = IF pc = "accepted" THEN "again_accepted" ELSE "again_rejected"
    /\ UNCHANGED <<config, stack, input_buffer, error_message, parse_tree,
                   input_tokens, shifts>>

NextReuse ==
    \/ InitializeReuse
    \/ Reinitialize
    \/ ParseAgain
    \/ UndefinedAction
    \/ Shift
    \/ Reduce
    \/ AcceptOrOther
    \/ Raise

ReuseSpec == Init /\ [][NextReuse]_vars

Next ==
    \/ Initialize
    \/ UndefinedAction
    \/ Shift
    \/ Reduce
    \/ AcceptOrOther
    \/ Raise

Spec == Init /\ [][Next]_vars

\* parse() is a loop that runs without waiting on anything: once it is
\* called it keeps taking steps
FairSpec == Spec /\ WF_vars(ParseStep)

(***************************************************************************)
(* Properties                                                              *)
(***************************************************************************)
Shipped == self_SLR_grammar = "SLR_grammar"

Returned == pc \in {"accepted", "rejected"}

\* the buffer as initialize() left it
InitialBuffer == input_tokens \o <<"$">>

\* parse() returned False from reduce (line 148): the node pushed at line
\* 142 is left on top of the stack
GotoFailed == pc = "rejected" /\ Len(stack) >= 1 /\ IsNode(stack[Len(stack)])

\* C1: with the module's table and grammar, parse() never ends by raising
\* an exception, whatever tokens initialize() was given.
C1_NeverRaises == Shipped => pc # "crashed"

\* C2: with the module's table and grammar, every parse that has been
\* initialized eventually returns True or False.
C2_ReturnsEventually == (Shipped /\ pc = "ready") ~> Returned

\* C3: a step that rejects for want of an action records the state on top
\* of the stack and the first symbol of the buffer, that symbol is the one
\* at index (number of shifts) of the initial buffer, and the step changes
\* neither the stack nor the buffer.
C3_Diagnostic ==
    [][(InLoop /\ CanLookUp /\ Action = None /\ pc' # pc) =>
          /\ pc' = "rejected"
          /\ error_message' = Message(TopState, Symbol)
          /\ get_error_message' = Message(stack'[Len(stack')].int, input_buffer'[1])
          /\ shifts + 1 <= Len(InitialBuffer)
          /\ Symbol = InitialBuffer[shifts + 1]
          /\ stack' = stack
          /\ input_buffer' = input_buffer]_vars

C3_Witness ==
    /\ pc = "rejected" /\ ~GotoFailed
    /\ shifts >= 1 /\ Len(input_buffer) >= 2
    /\ error_message = Message(TopState, input_tokens[shifts + 1])

\* C4: when reduce finds no goto entry and parse() returns False, a
\* diagnostic has been recorded.
C4_GotoDiagnostic == GotoFailed => error_message # None

\* every nonterminal node of the tree is built by a production
RECURSIVE EveryNodeBuilt(_, _)
EveryNodeBuilt(grammar, node) ==
    /\ node.symbol \in NonTerminals(grammar) => BuiltByProduction(grammar, node)
    /\ \A j \in 1..Len(node.children) : EveryNodeBuilt(grammar, node.children[j])

\* C5: with the module's grammar, every nonterminal node on the stack, and
\* every nonterminal node of the tree of an accepted parse, has the symbol
\* of a production's left-hand side and children that spell its right-hand
\* side (no children for an epsilon production).
C5_TreeShape ==
    Shipped =>
        /\ \A i \in 1..Len(stack) :
              IsNode(stack[i]) => EveryNodeBuilt(Grammar, stack[i])
        /\ pc = "accepted" => EveryNodeBuilt(Grammar, parse_tree)

C5_Witness ==
    /\ Shipped /\ pc = "accepted"
    /\ \E j \in 1..Len(parse_tree.children) :
          /\ Len(parse_tree.children[j].children) >= 2
          /\ \E k \in 1..Len(parse_tree.children[j].children) :
                parse_tree.children[j].children[k].symbol \in NonTerminals(Grammar)

NoEndMarker == \A i \in 1..Len(input_tokens) : input_tokens[i] # "$"

\* C6 as stated: the terminal nodes of an accepted tree, left to right,
\* are the tokens given to initialize().
C6_LeavesAreTokens ==
    (Shipped /\ pc = "accepted") => Yield(Grammar, parse_tree) = input_tokens

\* C6: when the tokens given to initialize() hold no end marker, the
\* terminal nodes of an accepted tree, left to right, are those tokens,
\* one node per token.
C6_LeavesAreTokensNoMarker ==
    (Shipped /\ pc = "accepted" /\ NoEndMarker) =>
        Yield(Grammar, parse_tree) = input_tokens

C6_Witness ==
    /\ Shipped /\ pc = "accepted" /\ NoEndMarker
    /\ Len(input_tokens) >= 3
    /\ Yield(Grammar, parse_tree) = input_tokens

\* C7: on acceptance the stack is [0, root, state], parse_tree is that
\* root, and the root's symbol is CODE.
C7_AcceptStack ==
    pc = "accepted" =>
        /\ Len(stack) = 3
        /\ stack[1] = Number(0)
        /\ IsNode(stack[2])
        /\ IsInt(stack[3])
        /\ parse_tree = stack[2]
        /\ parse_tree.symbol = "CODE"

C7_Witness ==
    pc = "accepted" /\ Len(stack) = 3 /\ IsNode(parse_tree) /\ Len(parse_tree.children) = 2

\* C8 as stated: on acceptance every token given to initialize() has been
\* shifted and the buffer holds the end marker alone.
C8_AllConsumed ==
    pc = "accepted" =>
        input_buffer = <<"$">> /\ shifts = Len(input_tokens)

\* C8: when the tokens given to initialize() hold no end marker, on
\* acceptance every token has been shifted and the buffer holds the
\* appended end marker alone.
C8_AllConsumedNoMarker ==
    (pc = "accepted" /\ NoEndMarker) =>
        input_buffer = <<"$">> /\ shifts = Len(input_tokens)

C8_Witness ==
    /\ pc = "accepted" /\ NoEndMarker
    /\ shifts >= 3 /\ shifts = Len(input_tokens) /\ input_buffer = <<"$">>

\* C9: with the module's table and grammar, a token list rejected for want
\* of an action is not a sentence of the grammar.
C9_RejectedNotSentence ==
    (Shipped /\ pc = "rejected" /\ ~GotoFailed) => input_tokens \notin Sentences

PrintedSymbols(node) ==
    [i \in 1..Len(print_parse_tree(node, 0)) |-> print_parse_tree(node, 0)[i].text]

\* C10 as stated: the tokens vtype x semi are accepted and the tree prints
\* CODE, VDECL, vtype, id, semi, CODE.
C10_ScenarioA ==
    (Shipped /\ input_tokens = <<"vtype", "x", "semi">> /\ pc # "ready") =>
        /\ pc = "running" \/ pc = "accepted"
        /\ pc = "accepted" =>
              PrintedSymbols(parse_tree) =
                  <<"CODE", "VDECL", "vtype", "id", "semi", "CODE">>

\* C10: the tokens vtype id semi are accepted, and the tree is CODE with
\* children VDECL(vtype, id, semi) and a childless CODE; it prints CODE,
\* VDECL, vtype, id, semi, CODE.
C10_ScenarioATerminals ==
    (Shipped /\ input_tokens = <<"vtype", "id", "semi">> /\ pc # "ready") =>
        /\ pc = "running" \/ pc = "accepted"
        /\ pc = "accepted" =>
              /\ PrintedSymbols(parse_tree) =
                    <<"CODE", "VDECL", "vtype", "id", "semi", "CODE">>
              /\ parse_tree =
                    ParseNode("CODE",
                        <<ParseNode("VDECL",
                              <<ParseNode("vtype", <<>>), ParseNode("id", <<>>),
                                ParseNode("semi", <<>>)>>),
                          ParseNode("CODE", <<>>)>>)

C10_Witness ==
    /\ Shipped /\ input_tokens = <<"vtype", "id", "semi">> /\ pc = "accepted"
    /\ Len(print_parse_tree(parse_tree, 0)) = 6

\* C11: the tokens vtype vtype are rejected; the diagnostic names the
\* symbol vtype and the state pushed by the shift of the first vtype, and
\* one token has been consumed.
C11_ScenarioB ==
    (Shipped /\ input_tokens = <<"vtype", "vtype">> /\ pc # "ready") =>
        /\ pc = "running" \/ pc = "rejected"
        /\ shifts = 1
        /\ input_buffer = <<"vtype", "$">>
        /\ Len(stack) = 3
        /\ stack[2] = ParseNode("vtype", <<>>)
        /\ stack[3] = Number(int(Tail(SLR_parsing_table[0]["vtype"].str)))
        /\ pc = "rejected" => get_error_message = Message(stack[3].int, "vtype")

C11_Witness ==
    /\ Shipped /\ input_tokens = <<"vtype", "vtype">> /\ pc = "rejected"
    /\ error_message = Message(4, "vtype")

\* the nonterminals that derive the empty string
RECURSIVE NullableFrom(_, _)
NullableFrom(grammar, known) ==
    LET more == {grammar[i][1] : i \in
                    {k \in DOMAIN grammar :
                        \/ grammar[k][2] = <<"epsilon">>
                        \/ \A j \in 1..Len(grammar[k][2]) : grammar[k][2][j] \in known}}
    IN  IF more \subseteq known THEN known ELSE NullableFrom(grammar, known \cup more)

Nullable(grammar) == NullableFrom(grammar, {})

\* the start symbol: the right-hand side of the augmenting production
StartSymbol(grammar) == grammar[0][2][1]

\* C12: with the module's grammar, whose start symbol derives epsilon, the
\* empty token list is accepted by one epsilon reduction and no shift, and
\* the tree is a CODE node without children.
C12_ScenarioC ==
    (Shipped /\ input_tokens = <<>> /\ pc \notin {"constructed", "ready"}) =>
        /\ StartSymbol(Grammar) \in Nullable(Grammar)
        /\ pc = "running" \/ pc = "accepted"
        /\ shifts = 0
        /\ input_buffer = <<"$">>
        /\ stack = <<Number(0), ParseNode("CODE", <<>>), Number(1)>>
        /\ pc = "accepted" => parse_tree = ParseNode("CODE", <<>>)

C12_Witness ==
    /\ Shipped /\ input_tokens = <<>> /\ pc = "accepted"
    /\ parse_tree.symbol = "CODE" /\ parse_tree.children = <<>>

\* C13: whenever parse() has returned, the object carries the result of
\* that parse alone: after False no tree and a diagnostic, after True the
\* root of this parse and no diagnostic.
C13_NoLeftover ==
    Shipped =>
        /\ pc = "rejected" => parse_tree = None /\ error_message # None
        /\ pc = "accepted" => parse_tree = stack[2] /\ error_message = None

\* C14: every lookup of an action reads the table that was passed to the
\* constructor.
C14_ConstructorTable ==
    (InLoop /\ CanLookUp /\ TopState \in DOMAIN TableObject(parsing_table)) =>
        Action = get(TableObject(parsing_table)[TopState], Symbol)

\* the stack is [0, node, state, ..., node, state]: odd length, ints that
\* are keys of the table at the 1st, 3rd, ... places, ParseNodes between
StackShape ==
    /\ Len(stack) % 2 = 1
    /\ stack[1] = Number(0)
    /\ \A i \in 1..Len(stack) :
          IF i % 2 = 1
          THEN IsInt(stack[i]) /\ stack[i].int \in DOMAIN Table
          ELSE IsNode(stack[i])
    /\ IsInt(stack[Len(stack)])

\* C15: with the module's table and grammar, from initialize() on, at the
\* top of every iteration of the loop and when parse() has ended, the
\* stack has odd length, starts with state 0, alternates states that are
\* keys of the table with ParseNodes, and ends with a state.
C15_StackShape == (Shipped /\ pc # "constructed") => StackShape

C15_Witness ==
    /\ Shipped /\ StackShape /\ Len(stack) >= 7 /\ shifts >= 3
    /\ \E i \in 1..Len(stack) : IsNode(stack[i]) /\ stack[i].children # <<>>

\* C16: a shift removes the first symbol of the buffer and nothing else
\* from it, appends to the stack a childless node of that symbol and then
\* the int the action names, and changes nothing below.
C16_ShiftFrame ==
    [][(InLoop /\ CanLookUp /\ IsStr(Action) /\ startswith(Action.str, "s")
           /\ vars' # vars) =>
          /\ input_buffer = <<Symbol>> \o input_buffer'
          /\ Len(stack') = Len(stack) + 2
          /\ SubSeq(stack', 1, Len(stack)) = stack
          /\ stack'[Len(stack) + 1] = ParseNode(Symbol, <<>>)
          /\ IsNumeral(Tail(Action.str))
          /\ stack'[Len(stack) + 2] = Number(int(Tail(Action.str)))
          /\ shifts' = shifts + 1
          /\ UNCHANGED <<error_message, parse_tree>>]_vars

C16_Witness ==
    /\ pc = "running" /\ shifts = 2 /\ Len(stack) = 5
    /\ stack[4] = ParseNode(input_tokens[2], <<>>)
    /\ input_buffer = SubSeq(InitialBuffer, 3, Len(InitialBuffer))

\* the loop is about to call reduce (line 80), and the production it names
ReduceIsNext ==
    /\ InLoop /\ CanLookUp
    /\ IsStr(Action) /\ ~startswith(Action.str, "s") /\ startswith(Action.str, "r")

RuleIsValid ==
    IsNumeral(Tail(Action.str)) /\ int(Tail(Action.str)) \in DOMAIN Grammar

Lhs == Grammar[int(Tail(Action.str))][1]
Rhs == Grammar[int(Tail(Action.str))][2]

\* C17: a successful reduce by a production with a non-epsilon rhs removes
\* the top 2*|rhs| entries, pushes an lhs node whose children are the
\* removed nodes in their stack order, then the goto of the state exposed
\* under the span, and changes neither the entries below nor the buffer.
C17_ReduceFrame ==
    [][(ReduceIsNext /\ RuleIsValid /\ Rhs # <<"epsilon">>
           /\ pc' = "running" /\ stack' # stack) =>
          LET n == Len(Rhs)
              base == Len(stack) - 2 * n
          IN  /\ base >= 1
              /\ Len(stack') = base + 2
              /\ SubSeq(stack', 1, base) = SubSeq(stack, 1, base)
              /\ stack'[base + 1] =
                    ParseNode(Lhs, [i \in 1..n |-> stack[base + 2 * i - 1]])
              /\ IsInt(stack[base])
              /\ Lhs \in DOMAIN Table[stack[base].int]
              /\ stack'[base + 2] = Table[stack[base].int][Lhs]
              /\ input_buffer' = input_buffer]_vars

C17_Witness ==
    /\ pc = "running" /\ Len(stack) >= 5
    /\ IsNode(stack[Len(stack) - 1])
    /\ stack[Len(stack) - 1].symbol = "ASSIGN"
    /\ Len(stack[Len(stack) - 1].children) = 3
    /\ stack[Len(stack)] = Table[stack[Len(stack) - 2].int]["ASSIGN"]

\* C18: with the module's table and grammar, a reduce by an epsilon
\* production leaves the buffer alone and turns the stack into the same
\* stack with a childless lhs node and the goto of the old top state
\* appended.
C18_EpsilonFrame ==
    [][(Shipped /\ ReduceIsNext /\ RuleIsValid /\ Rhs = <<"epsilon">>
           /\ vars' # vars) =>
          /\ Lhs \in DOMAIN Table[TopState]
          /\ stack' = stack \o <<ParseNode(Lhs, <<>>), Table[TopState][Lhs]>>
          /\ input_buffer' = input_buffer]_vars

C18_Witness ==
    /\ Shipped /\ pc = "running" /\ Len(stack) >= 5
    /\ stack[Len(stack) - 1] = ParseNode("BLOCK", <<>>)
    /\ stack[Len(stack)] = Table[stack[Len(stack) - 2].int]["BLOCK"]

\* C20: with the module's table and grammar, whenever a reduce is about
\* to be taken the stack holds the 2*|rhs| entries to pop above the bottom
\* state and the exposed state has an int goto under the lhs; parse()
\* never returns False from reduce.
C20_ReduceNeverFails ==
    Shipped =>
        /\ ~GotoFailed
        /\ ReduceIsNext =>
              /\ RuleIsValid
              /\ LET n == IF Rhs # <<"epsilon">> THEN Len(Rhs) ELSE 0
                     base == Len(stack) - 2 * n
                 IN  /\ base >= 1
                     /\ IsInt(stack[base])
                     /\ stack[base].int \in DOMAIN Table
                     /\ Lhs \in DOMAIN Table[stack[base].int]
                     /\ IsInt(Table[stack[base].int][Lhs])

C20_Witness ==
    /\ Shipped /\ pc = "running" /\ Len(stack) = 3
    /\ IsNode(stack[2]) /\ stack[2].symbol = "FDECL"
    /\ Len(stack[2].children) = 9

\* C19: with the module's table and grammar, parse() called again after it
\* returned, with no initialize() between, returns the same boolean at its
\* first step and changes neither the stack, the buffer, the tree nor the
\* diagnostic; no shift or reduce is performed.
C19_Absorbing ==
    [][(Shipped /\ pc \in {"again_accepted", "again_rejected"} /\ vars' # vars) =>
          /\ pc' = IF pc = "again_accepted" THEN "accepted" ELSE "rejected"
          /\ UNCHANGED <<stack, input_buffer, parse_tree, error_message, shifts>>]_vars

C19_Witness ==
    /\ Shipped /\ pc = "again_rejected"
    /\ shifts = 1 /\ Len(stack) = 3
    /\ error_message = Message(TopState, Symbol)

====
